---- MODULE Spec2Model ----
(***************************************************************************)
(* The "On This Page" outline extractor of the blog                        *)
(* (src/components/onthispage.js): a React component that, 300 ms after    *)
(* every change of its htmlContent prop, scans the rendered .blog-content  *)
(* region for h2/h3 headings, derives anchor ids and keeps the result in   *)
(* its `headings` state.                                                    *)
(*                                                                         *)
(* Strings are sequences of one-character strings, so that toLowerCase and *)
(* the two regular-expression replacements of createIdFromText are         *)
(* computed character by character.                                        *)
(***************************************************************************)
EXTENDS Integers, Sequences, FiniteSets, TLC

(***************************************************************************)
(* Bounds of the model.                                                    *)
(***************************************************************************)
\* number of mounts and htmlContent changes explored in one behaviour
MaxChanges == 3
\* granularity of the passage of time, in milliseconds
TickMs == 100
\* longest text the identifier derivation is applied to in SpecId
MaxTextLen == 3
\* number of runs of the Navbar's [pathname] effect explored in one behaviour
MaxNavChanges == 3

(***************************************************************************)
(* Characters and strings.                                                 *)
(***************************************************************************)
UpperCase == <<"A", "B", "C", "D", "E", "F", "G", "H", "I", "J", "K", "L", "M",
               "N", "O", "P", "Q", "R", "S", "T", "U", "V", "W", "X", "Y", "Z">>
LowerCase == <<"a", "b", "c", "d", "e", "f", "g", "h", "i", "j", "k", "l", "m",
               "n", "o", "p", "q", "r", "s", "t", "u", "v", "w", "x", "y", "z">>
Digits == <<"0", "1", "2", "3", "4", "5", "6", "7", "8", "9">>

Range(s) == {s[i] : i \in 1..Len(s)}

\* the lower-case letter of every upper-case letter
LowerOf ==
    [c \in Range(UpperCase) |->
        LowerCase[CHOOSE i \in 1..Len(UpperCase) : UpperCase[i] = c]]

\* String.prototype.toLowerCase on one character
toLowerCaseChar(c) == IF c \in DOMAIN LowerOf THEN LowerOf[c] ELSE c

\* String.prototype.toLowerCase
toLowerCase(s) == [i \in 1..Len(s) |-> toLowerCaseChar(s[i])]

\* the character class [a-z0-9]
AZ09 == Range(LowerCase) \cup Range(Digits)

IsAZ09(c) == c \in AZ09

\* the rest of s after the longest prefix that matches [^a-z0-9]*
RECURSIVE SkipRun(_)
SkipRun(s) ==
    IF s = <<>> \/ IsAZ09(Head(s)) THEN s ELSE SkipRun(Tail(s))

\* s.replace(/[^a-z0-9]+/g, '-'): left to right, every match (a maximal run,
\* the quantifier is greedy) is replaced by one hyphen
RECURSIVE ReplaceRunsNoCollapse(_)
ReplaceRunsNoCollapse(s) ==
    IF s = <<>> THEN <<>>
    ELSE IF IsAZ09(Head(s)) THEN <<Head(s)>> \o ReplaceRunsNoCollapse(Tail(s))
    ELSE <<"-">> \o ReplaceRunsNoCollapse(Tail(s))

RECURSIVE ReplaceRuns(_)
ReplaceRuns(s) ==
    IF s = <<>> THEN <<>>
    ELSE IF IsAZ09(Head(s)) THEN <<Head(s)>> \o ReplaceRuns(Tail(s))
    ELSE <<"-">> \o ReplaceRuns(SkipRun(Tail(s)))

\* s.replace(/(^-|-$)/g, ''): a hyphen is removed when it is the first or the
\* last character of s
RECURSIVE TrimFrom(_, _)
TrimFrom(s, i) ==
    IF i > Len(s) THEN <<>>
    ELSE IF s[i] = "-" /\ (i = 1 \/ i = Len(s)) THEN TrimFrom(s, i + 1)
    ELSE <<s[i]>> \o TrimFrom(s, i + 1)

TrimHyphensLeadingOnly(s) == IF s # <<>> /\ Head(s) = "-" THEN Tail(s) ELSE s

TrimHyphens(s) == TrimFrom(s, 1)

\* text.toLowerCase().replace(...).replace(...): each call is applied to the
\* string that the call before it returned
createIdFromText(text) ==
    CHOOSE id \in {TrimHyphens(replaced) :
                      replaced \in {ReplaceRuns(lower) :
                                       lower \in {toLowerCase(t) : t \in {text}}}} : TRUE

(***************************************************************************)
(* The documents the renderer can display.  An element of the page is a     *)
(* heading with its tagName, textContent and id attribute, and a flag       *)
(* telling whether it lies inside the .blog-content container.              *)
(***************************************************************************)
El(tag, text, id, inside) ==
    [tagName |-> tag, textContent |-> text, id |-> id, inContent |-> inside]

H1 == <<"H", "1">>
H2 == <<"H", "2">>
H3 == <<"H", "3">>
H4 == <<"H", "4">>

tIntroduction == <<"I", "n", "t", "r", "o", "d", "u", "c", "t", "i", "o", "n">>
tWhatIsTailwind == <<"W", "h", "a", "t", " ", "i", "s", " ", "T", "a", "i", "l",
                     "w", "i", "n", "d", " ", "C", "S", "S", "?">>
tKeyFeatures == <<"K", "e", "y", " ", "F", "e", "a", "t", "u", "r", "e", "s">>
tGettingStarted == <<"G", "e", "t", "t", "i", "n", "g", " ", "S", "t", "a", "r",
                     "t", "e", "d", " ", "w", "i", "t", "h", " ", "N", "e", "x",
                     "t", ".", "j", "s">>
tOnThisPage == <<"O", "n", " ", "T", "h", "i", "s", " ", "P", "a", "g", "e">>
tTitle == <<"B", "l", "o", "g">>
tTips == <<"T", "i", "p", "s">>
tSetup == <<"S", "e", "t", "u", "p", "!">>
tPunct == <<"?", "!">>
idSetup == <<"s", "e", "t", "u", "p">>
idStart == <<"s", "t", "a", "r", "t">>
idGettingStarted == <<"g", "e", "t", "t", "i", "n", "g", "-", "s", "t", "a", "r",
                      "t", "e", "d", "-", "w", "i", "t", "h", "-", "n", "e", "x",
                      "t", "-", "j", "s">>
idIntroduction == <<"i", "n", "t", "r", "o", "d", "u", "c", "t", "i", "o", "n">>
idWhatIsTailwind == <<"w", "h", "a", "t", "-", "i", "s", "-", "t", "a", "i", "l",
                      "w", "i", "n", "d", "-", "c", "s", "s">>
idKeyFeatures == <<"k", "e", "y", "-", "f", "e", "a", "t", "u", "r", "e", "s">>
NoId == <<>>

\* tailwind-mastery.md: Introduction, What is Tailwind CSS?, Key Features ...
docTailwind ==
    [contentArea |-> TRUE,
     els |-> << El(H1, tTitle, NoId, TRUE),
                El(H2, tIntroduction, NoId, TRUE),
                El(H2, tWhatIsTailwind, NoId, TRUE),
                El(H3, tKeyFeatures, NoId, TRUE) >>]

\* getting-started-with-nextjs.md, rendered with heading ids already in the
\* HTML
docNext ==
    [contentArea |-> TRUE,
     els |-> << El(H2, tGettingStarted, idStart, TRUE),
                El(H3, tKeyFeatures, idKeyFeatures, TRUE) >>]

\* Mastering-Headless-CMS-Build-Scale-Succeed.md has "## Introduction" twice
docCms ==
    [contentArea |-> TRUE,
     els |-> << El(H2, tIntroduction, NoId, TRUE),
                El(H2, tIntroduction, NoId, TRUE) >>]

\* an article without any h2/h3 in its content, below a page-level h2
docPlain ==
    [contentArea |-> TRUE,
     els |-> << El(H2, tOnThisPage, NoId, FALSE),
                El(H1, tTitle, NoId, TRUE),
                El(H4, tTips, NoId, TRUE) >>]

\* a page whose layout has no .blog-content container
docNoRegion ==
    [contentArea |-> FALSE,
     els |-> << El(H2, tIntroduction, NoId, FALSE) >>]

\* a text that derives the empty id, and an id in the HTML that equals the
\* id derived for another heading
docEdge ==
    [contentArea |-> TRUE,
     els |-> << El(H2, tPunct, NoId, TRUE),
                El(H3, tTips, idSetup, TRUE),
                El(H2, tSetup, NoId, TRUE) >>]

Documents == <<docTailwind, docNext, docCms, docPlain, docNoRegion, docEdge>>

DocIds == 1..Len(Documents)

\* the document before anything has been rendered
emptyDom == [contentArea |-> FALSE, els |-> <<>>]

(***************************************************************************)
(* State.                                                                  *)
(***************************************************************************)
VARIABLES
    mounted,      \* whether the OnThisPage component is mounted
    htmlContent,  \* the htmlContent prop: which document is displayed (0: none)
    headings,     \* the component's `headings` state, the outline
    timers,       \* the pending setTimeout callbacks of the event loop
    timer,        \* the handle the last effect run keeps for its cleanup
    nextTimerId,  \* the handle the next setTimeout call returns
    dom,          \* the rendered page: .blog-content present?, its headings
    domContent,   \* history: the document the page was rendered from (0: none)
    changes,      \* history: number of effect runs (mounts and prop changes)
    lastScan,     \* history: what the last run of extractHeadings saw
    idText,       \* SpecId: the text createIdFromText is applied to
    idResult,     \* SpecId: the result, <<FALSE>> before / <<TRUE, id>> after
    navMounted,   \* Navbar: whether the component is mounted
    pathname,     \* Navbar: usePathname(), "" before the mount
    progress,     \* Navbar: the `progress` state handed to the LoadingBar
    navTimers,    \* Navbar: the pending setTimeout callbacks of its effects
    navNextId,    \* Navbar: the handle the next setTimeout call returns
    navChanges,   \* Navbar, history: runs of the [pathname] effect
    loaderFull    \* LoadingBar: it was handed progress 100 and has not yet
                  \* reported that it finished

\* the state of the OnThisPage component and of the page it scans
pageVars == <<mounted, htmlContent, headings, timers, timer, nextTimerId, dom,
              domContent, changes, lastScan, idText, idResult>>

\* the state of the Navbar and of its LoadingBar
navVars == <<navMounted, pathname, progress, navTimers, navNextId, navChanges,
             loaderFull>>

vars == <<mounted, htmlContent, headings, timers, timer, nextTimerId, dom,
          domContent, changes, lastScan, idText, idResult, navVars>>

\* the Navbar before it is mounted: useState(0)
NavbarUnmounted ==
    /\ navMounted = FALSE
    /\ pathname = ""
    /\ progress = 0
    /\ navTimers = {}
    /\ navNextId = 1
    /\ navChanges = 0
    /\ loaderFull = FALSE

\* the delay of the deferred scan, in milliseconds
ScanDelay == 300

\* no scan has run since the component mounted
NoScan == [kind |-> "none", count |-> 0, after |-> emptyDom, source |-> 0]

(***************************************************************************)
(* The event loop's timers.                                                *)
(***************************************************************************)
setTimeoutDropped(ts, id, fn, ms) == ts

setTimeout(ts, id, fn, ms) == ts \cup {[id |-> id, fn |-> fn, ms |-> ms]}

clearTimeoutNoop(ts, id) == ts

clearTimeout(ts, id) == {t \in ts : t.id # id}

\* a timeout is one-shot: once its callback has run it is no longer pending
afterFiringRepeats(ts, t) == (ts \ {t}) \cup {[t EXCEPT !.ms = ScanDelay]}

afterFiring(ts, t) == ts \ {t}

(***************************************************************************)
(* extractHeadings.                                                        *)
(***************************************************************************)
\* the positions in d.els that contentArea.querySelectorAll('h2, h3') returns,
\* in document order
headingElementsWholePage(d) ==
    SelectSeq([i \in 1..Len(d.els) |-> i],
              LAMBDA i : d.els[i].tagName \in {H2, H3})

headingElements(d) ==
    SelectSeq([i \in 1..Len(d.els) |-> i],
              LAMBDA i : d.els[i].inContent /\ d.els[i].tagName \in {H2, H3})

\* heading.id || createIdFromText(heading.textContent)
idOrDerivedAlwaysDerived(heading) == createIdFromText(heading.textContent)

idOrDerived(heading) ==
    IF heading.id # <<>> THEN heading.id
    ELSE createIdFromText(heading.textContent)

\* Array.from(headingElements).map(heading => ({text, id, level}))
extractedHeadings(d) ==
    LET hs == headingElements(d)
    IN  [k \in 1..Len(hs) |->
            [text  |-> d.els[hs[k]].textContent,
             id    |-> idOrDerived(d.els[hs[k]]),
             level |-> toLowerCase(d.els[hs[k]].tagName)]]

\* headingElements.forEach(heading => { if (!heading.id) heading.id = ... })
assignIdsOverwriteAll(d) ==
    LET hs == Range(headingElements(d))
    IN  [d EXCEPT !.els =
            [i \in 1..Len(d.els) |->
                IF i \in hs
                THEN [d.els[i] EXCEPT !.id = createIdFromText(d.els[i].textContent)]
                ELSE d.els[i]]]

assignIds(d) ==
    LET hs == Range(headingElements(d))
    IN  [d EXCEPT !.els =
            [i \in 1..Len(d.els) |->
                IF i \in hs /\ d.els[i].id = <<>>
                THEN [d.els[i] EXCEPT !.id = createIdFromText(d.els[i].textContent)]
                ELSE d.els[i]]]

\* the outline after extractHeadings has run on page d with outline h
headingsAfterScanAppend(h, d) ==
    IF d.contentArea THEN h \o extractedHeadings(d) ELSE h

headingsAfterScanKeepIfNone(h, d) ==
    IF d.contentArea /\ Len(headingElements(d)) > 0 THEN extractedHeadings(d) ELSE h

headingsAfterScanClearsIfMissing(h, d) ==
    IF d.contentArea THEN extractedHeadings(d) ELSE <<>>

headingsAfterScanNegated(h, d) ==
    IF ~d.contentArea THEN extractedHeadings(d) ELSE h

headingsAfterScan(h, d) ==
    IF d.contentArea THEN extractedHeadings(d) ELSE h

\* the page after extractHeadings has run on page d
domAfterScanRawText(d) ==
    IF d.contentArea
    THEN [d EXCEPT !.els =
            [i \in 1..Len(d.els) |->
                IF i \in Range(headingElements(d)) /\ d.els[i].id = <<>>
                THEN [d.els[i] EXCEPT !.id = d.els[i].textContent]
                ELSE d.els[i]]]
    ELSE d

domAfterScanDeduplicated(d) ==
    IF d.contentArea
    THEN LET hs == Range(headingElements(d))
             derived(i) == createIdFromText(d.els[i].textContent)
             earlier(i) == {j \in hs : j < i /\ d.els[j].id = <<>>
                                             /\ derived(j) = derived(i)}
         IN  [d EXCEPT !.els =
                [i \in 1..Len(d.els) |->
                    IF i \in hs /\ d.els[i].id = <<>>
                    THEN [d.els[i] EXCEPT !.id =
                            IF earlier(i) = {} THEN derived(i)
                            ELSE derived(i) \o <<"-", Digits[Cardinality(earlier(i)) + 1]>>]
                    ELSE d.els[i]]]
    ELSE d

domAfterScan(d) ==
    IF d.contentArea THEN assignIds(d) ELSE d

(***************************************************************************)
(* The component's render output: null, or the panel with one item per     *)
(* outline entry.                                                          *)
(***************************************************************************)
renderIndentSections(h) ==
    IF Len(h) = 0 THEN [panel |-> FALSE, items |-> <<>>]
    ELSE [panel |-> TRUE,
          items |-> [k \in 1..Len(h) |->
                        [indent |-> (h[k].level = <<"h", "2">>),
                         href   |-> <<"#">> \o h[k].id,
                         text   |-> h[k].text]]]

render(h) ==
    IF Len(h) = 0 THEN [panel |-> FALSE, items |-> <<>>]
    ELSE [panel |-> TRUE,
          items |-> [k \in 1..Len(h) |->
                        [indent |-> (h[k].level = <<"h", "3">>),
                         href   |-> <<"#">> \o h[k].id,
                         text   |-> h[k].text]]]

\* what the user sees of the component
panelShown == mounted /\ render(headings).panel

(***************************************************************************)
(* Initial state: nothing mounted, nothing rendered.                       *)
(***************************************************************************)
Init ==
    /\ mounted = FALSE
    /\ htmlContent = 0
    /\ headings = <<>>
    /\ timers = {}
    /\ timer = 0
    /\ nextTimerId = 1
    /\ dom = emptyDom
    /\ domContent = 0
    /\ changes = 0
    /\ lastScan = NoScan
    /\ idText = <<>>
    /\ idResult = <<FALSE>>
    /\ NavbarUnmounted

(***************************************************************************)
(* Actions.                                                                *)
(***************************************************************************)
\* the component mounts with htmlContent = d: useState([]) and the first run
\* of the effect, which schedules the deferred scan
Mount(d) ==
    /\ ~mounted
    /\ changes < MaxChanges
    /\ mounted' = TRUE
    /\ htmlContent' = d
    /\ headings' = <<>>
    /\ timers' = setTimeout(timers, nextTimerId, "extractHeadings", ScanDelay)
    /\ timer' = nextTimerId
    /\ nextTimerId' = nextTimerId + 1
    /\ changes' = changes + 1
    /\ lastScan' = NoScan
    /\ UNCHANGED <<dom, domContent, idText, idResult>>
    /\ UNCHANGED navVars

\* the htmlContent prop changes to d: the previous effect's cleanup runs
\* (clearTimeout(timer)), then the effect runs again
ContentChange(d) ==
    /\ mounted
    /\ d # htmlContent
    /\ changes < MaxChanges
    /\ htmlContent' = d
    /\ timers' = setTimeout(clearTimeout(timers, timer), nextTimerId,
                            "extractHeadings", ScanDelay)
    /\ timer' = nextTimerId
    /\ nextTimerId' = nextTimerId + 1
    /\ changes' = changes + 1
    /\ UNCHANGED <<mounted, headings, dom, domContent, lastScan, idText, idResult>>
    /\ UNCHANGED navVars

\* the component unmounts: the effect's cleanup runs
Unmount ==
    /\ mounted
    /\ mounted' = FALSE
    /\ timers' = clearTimeout(timers, timer)
    /\ timer' = 0
    /\ UNCHANGED <<htmlContent, headings, nextTimerId, dom, domContent, changes,
                   lastScan, idText, idResult>>
    /\ UNCHANGED navVars

\* the document renderer finishes rendering the displayed document into the
\* page; the elements are new, ids given by an earlier scan are gone
RendererCompletes ==
    /\ mounted
    /\ domContent # htmlContent
    /\ dom' = Documents[htmlContent]
    /\ domContent' = htmlContent
    /\ UNCHANGED <<mounted, htmlContent, headings, timers, timer, nextTimerId,
                   changes, lastScan, idText, idResult>>
    /\ UNCHANGED navVars

\* time passes while no timer is due
Tick ==
    /\ timers # {}
    /\ \A t \in timers : t.ms > 0
    /\ timers' = {[t EXCEPT !.ms = IF t.ms > TickMs THEN t.ms - TickMs ELSE 0] :
                     t \in timers}
    /\ UNCHANGED <<mounted, htmlContent, headings, timer, nextTimerId, dom,
                   domContent, changes, lastScan, idText, idResult>>
    /\ UNCHANGED navVars

\* a due timer fires: setTimeout's callback calls extractHeadings
TimerFires(t) ==
    /\ t \in timers
    /\ t.ms = 0
    /\ t.fn = "extractHeadings"
    /\ timers' = afterFiring(timers, t)
    /\ headings' = headingsAfterScan(headings, dom)
    /\ dom' = domAfterScan(dom)
    /\ lastScan' = [kind       |-> IF dom.contentArea THEN "found" ELSE "missing",
                    count      |-> lastScan.count + 1,
                    timerId    |-> t.id,
                    latest     |-> timer,
                    wasMounted |-> mounted,
                    content    |-> htmlContent,
                    domContent |-> domContent,
                    before     |-> headings,
                    page       |-> dom,
                    after      |-> domAfterScan(dom),
                    prevKind   |-> lastScan.kind,
                    prevAfter  |-> lastScan.after,
                    source     |-> IF dom.contentArea THEN domContent
                                   ELSE lastScan.source]
    /\ UNCHANGED <<mounted, htmlContent, timer, nextTimerId, domContent, changes,
                   idText, idResult>>
    /\ UNCHANGED navVars

Next ==
    \/ \E d \in DocIds : Mount(d)
    \/ \E d \in DocIds : ContentChange(d)
    \/ Unmount
    \/ RendererCompletes
    \/ Tick
    \/ \E t \in timers : TimerFires(t)

Spec == Init /\ [][Next]_vars

\* the event loop lets time pass and runs the callback of a due timer (both
\* steps change the set of pending timers)
SpecLive ==
    /\ Spec
    /\ WF_timers(Tick)
    /\ WF_timers(\E t \in timers : TimerFires(t))

(***************************************************************************)
(* createIdFromText on its own: every text of at most MaxTextLen            *)
(* characters over IdAlphabet, and the texts of the documents.             *)
(***************************************************************************)
IdAlphabet == {"A", "b", "1", "-", " ", "?"}

BoundedTexts == UNION {[1..n -> IdAlphabet] : n \in 0..MaxTextLen}

DocumentTexts ==
    UNION {{Documents[d].els[i].textContent : i \in 1..Len(Documents[d].els)} :
              d \in DocIds}

InitId ==
    /\ mounted = FALSE
    /\ htmlContent = 0
    /\ headings = <<>>
    /\ timers = {}
    /\ timer = 0
    /\ nextTimerId = 1
    /\ dom = emptyDom
    /\ domContent = 0
    /\ changes = 0
    /\ lastScan = NoScan
    /\ idText \in BoundedTexts \cup DocumentTexts
    /\ idResult = <<FALSE>>
    /\ NavbarUnmounted

DeriveId ==
    /\ idResult = <<FALSE>>
    /\ idResult' = <<TRUE, createIdFromText(idText)>>
    /\ UNCHANGED <<mounted, htmlContent, headings, timers, timer, nextTimerId,
                   dom, domContent, changes, lastScan, idText>>
    /\ UNCHANGED navVars

NextId == DeriveId

SpecId == InitId /\ [][NextId]_vars

(***************************************************************************)
(* The Navbar of the root layout (src/components/Navbar.js): its `progress` *)
(* state drives the LoadingBar.  The effect on [pathname] sets it to 30 and *)
(* schedules 70 and 100; the mount effect schedules the reset to 0; the     *)
(* LoadingBar calls onLoaderFinished some time after it was handed 100.     *)
(* No effect has a cleanup, and the layout never unmounts the Navbar.       *)
(***************************************************************************)
\* the routes the Navbar links to
Paths == {"/", "/about", "/blog", "/contact"}

ProgressStart == 30
ProgressMiddle == 70
ProgressFull == 100
MiddleDelay == 100
FullDelay == 400
ResetDelay == 500

\* setTimeout(() => setprogress(val), delay)
navSetTimeout(ts, id, val, delay) ==
    ts \cup {[id |-> id, val |-> val, delay |-> delay, ms |-> delay]}

\* the two timers of the effect on [pathname]
pathnameEffectStuck(ts, id) ==
    navSetTimeout(navSetTimeout(ts, id, 50, MiddleDelay),
                  id + 1, ProgressFull, FullDelay)

pathnameEffect(ts, id) ==
    navSetTimeout(navSetTimeout(ts, id, ProgressMiddle, MiddleDelay),
                  id + 1, ProgressFull, FullDelay)

\* the timer of the mount effect
mountEffect(ts, id) == navSetTimeout(ts, id, 0, ResetDelay)

\* a due callback runs once every callback has run that was scheduled before
\* it with a delay that is not longer
mayRun(ts, t) ==
    /\ t.ms = 0
    /\ ~\E u \in ts : u.id < t.id /\ u.delay <= t.delay

\* the Navbar mounts on route p: useState(0), then both effects run
NavMount(p) ==
    /\ ~navMounted
    /\ navChanges < MaxNavChanges
    /\ navMounted' = TRUE
    /\ pathname' = p
    /\ progress' = ProgressStart
    /\ navTimers' = mountEffect(pathnameEffect(navTimers, navNextId), navNextId + 2)
    /\ navNextId' = navNextId + 3
    /\ navChanges' = navChanges + 1
    /\ UNCHANGED loaderFull
    /\ UNCHANGED pageVars

\* navigation to route p: the effect on [pathname] runs again
PathnameChange(p) ==
    /\ navMounted
    /\ p # pathname
    /\ navChanges < MaxNavChanges
    /\ pathname' = p
    /\ progress' = ProgressStart
    /\ navTimers' = pathnameEffect(navTimers, navNextId)
    /\ navNextId' = navNextId + 2
    /\ navChanges' = navChanges + 1
    /\ UNCHANGED <<navMounted, loaderFull>>
    /\ UNCHANGED pageVars

\* time passes while no timer of the Navbar is due
NavTick ==
    /\ navTimers # {}
    /\ \A t \in navTimers : t.ms > 0
    /\ navTimers' = {[t EXCEPT !.ms = IF t.ms > TickMs THEN t.ms - TickMs ELSE 0] :
                        t \in navTimers}
    /\ UNCHANGED <<navMounted, pathname, progress, navNextId, navChanges, loaderFull>>
    /\ UNCHANGED pageVars

\* a due timer of the Navbar fires: setprogress(val)
NavTimerFires(t) ==
    /\ t \in navTimers
    /\ mayRun(navTimers, t)
    /\ progress' = t.val
    /\ navTimers' = afterFiring(navTimers, t)
    /\ loaderFull' = (loaderFull \/ t.val = ProgressFull)
    /\ UNCHANGED <<navMounted, pathname, navNextId, navChanges>>
    /\ UNCHANGED pageVars

\* the LoadingBar reports that it finished: onLoaderFinished={() => setprogress(0)}
LoaderFinished ==
    /\ navMounted
    /\ loaderFull
    /\ progress' = 0
    /\ loaderFull' = FALSE
    /\ UNCHANGED <<navMounted, pathname, navTimers, navNextId, navChanges>>
    /\ UNCHANGED pageVars

NextNav ==
    \/ \E p \in Paths : NavMount(p)
    \/ \E p \in Paths : PathnameChange(p)
    \/ NavTick
    \/ \E t \in navTimers : NavTimerFires(t)
    \/ LoaderFinished

SpecNav == Init /\ [][NextNav]_vars

(***************************************************************************)
(* Properties.                                                             *)
(***************************************************************************)
\* the positions of the h2/h3 headings inside the content region of a document
Qualifying(doc) ==
    {i \in 1..Len(doc.els) :
        /\ doc.els[i].inContent
        /\ toLowerCase(doc.els[i].tagName) \in {<<"h", "2">>, <<"h", "3">>}}

\* the k-th smallest member of a set of positions
Kth(S, k) == CHOOSE i \in S : Cardinality({j \in S : j < i}) = k - 1

\* the last scan ran on the rendered content region of the document that was
\* displayed at that moment
ScannedRendered ==
    /\ lastScan.kind = "found"
    /\ lastScan.domContent = lastScan.content

\* C1: a scan of a rendered document with N h2/h3 headings in its content
\* region leaves an outline of exactly N entries, the i-th with the text of
\* the i-th such heading in document order; nothing of the previous outline
\* is kept.
C1_OutlineIsHeadingsInOrder ==
    ScannedRendered =>
        LET doc == Documents[lastScan.content]
            Q   == Qualifying(doc)
        IN  /\ Len(headings) = Cardinality(Q)
            /\ \A k \in 1..Len(headings) :
                   headings[k].text = doc.els[Kth(Q, k)].textContent

\* a scan of a rendered document with three headings replaced a different,
\* non-empty outline
C1_Witness ==
    /\ ScannedRendered
    /\ Len(lastScan.before) > 0
    /\ Len(headings) = 3
    /\ lastScan.before # headings

\* C2: at most one scan timer is pending, it is the one of the latest effect
\* run, and a scan that executes is the one scheduled by the latest
\* htmlContent change (a cancelled scan never executes).
C2_OnlyLatestScan ==
    /\ Cardinality(timers) <= 1
    /\ \A t \in timers : mounted /\ t.id = timer
    /\ lastScan.kind # "none" => lastScan.timerId = lastScan.latest

\* the first scan since the mount is the one of the third effect run: the
\* two scans scheduled before it were cancelled while pending
C2_Witness ==
    /\ lastScan.kind # "none"
    /\ lastScan.count = 1
    /\ lastScan.timerId = 3
    /\ changes = 3

\* C3: the displayed outline is never the outline of a superseded document:
\* whenever the panel is shown, its entries were extracted from the document
\* that is currently displayed.
C3_NeverStaleOutline ==
    panelShown => lastScan.source = htmlContent

\* C4: when a scan does not find the content region, the outline is empty and
\* the panel renders nothing, whatever the outline held before.
C4_MissingRegionEmptiesOutline ==
    lastScan.kind = "missing" => (headings = <<>> /\ ~panelShown)

\* C5: every entry id of the outline is unique within the outline and is the
\* id of exactly one heading element of the rendered document.
C5_IdsUniqueAndResolve ==
    mounted =>
        \A k \in 1..Len(headings) :
            /\ Cardinality({j \in 1..Len(headings) : headings[j].id = headings[k].id}) = 1
            /\ Cardinality({i \in 1..Len(dom.els) : dom.els[i].id = headings[k].id}) = 1

\* C6 as stated: in every state the outline is empty exactly when the
\* displayed document has no h2/h3 heading in its content region, and the
\* panel is hidden exactly then.
C6_EmptyIffNoHeadings ==
    mounted =>
        /\ (headings = <<>>) <=> (Qualifying(Documents[htmlContent]) = {})
        /\ (~panelShown) <=> (headings = <<>>)

\* the last scan ran on the rendered content region of the document that is
\* displayed now
CurrentDocumentScanned ==
    /\ mounted
    /\ ScannedRendered
    /\ lastScan.content = htmlContent

\* C6 amended: the panel is hidden exactly when the outline is empty; once
\* a scan has run on the rendered content region of the displayed document,
\* the outline is empty exactly when that document has no h2/h3 heading in
\* its content region.
C6_EmptyIffNoHeadingsOnceScanned ==
    /\ mounted => ((~panelShown) <=> (headings = <<>>))
    /\ CurrentDocumentScanned =>
           ((headings = <<>>) <=> (Qualifying(Documents[htmlContent]) = {}))

\* a scan of a rendered document without h2/h3 headings emptied a populated
\* outline, and the panel is hidden
C6_Witness ==
    /\ CurrentDocumentScanned
    /\ lastScan.before # <<>>
    /\ headings = <<>>
    /\ ~panelShown

\* C7: a scan executes only after the content region of the current
\* htmlContent has been rendered into the page.
C7_ScanOnlyAfterRender ==
    lastScan.kind # "none" => lastScan.domContent = lastScan.content

\* C8: after an htmlContent change the outline is empty until the scan
\* scheduled by that change has run.
C8_EmptyUntilNextScan ==
    (mounted /\ \E t \in timers : t.id = timer) => headings = <<>>

\* C9: a scan of a page that the previous scan left behind (an unchanged
\* document whose headings carry the ids of that scan) yields the outline the
\* previous scan yielded and changes no heading id.
C9_RescanIdempotent ==
    (/\ lastScan.kind = "found"
     /\ lastScan.prevKind = "found"
     /\ lastScan.page = lastScan.prevAfter)
    => (headings = lastScan.before /\ lastScan.after = lastScan.page)

\* a second scan ran on an unchanged page on which every h2/h3 heading of
\* the content region carried an id, some of them given by the first scan
C9_Witness ==
    /\ lastScan.kind = "found"
    /\ lastScan.prevKind = "found"
    /\ lastScan.page = lastScan.prevAfter
    /\ Len(headings) >= 2
    /\ \A i \in Qualifying(lastScan.page) : lastScan.page.els[i].id # <<>>
    /\ lastScan.page # Documents[lastScan.domContent]

\* the maximal runs of [a-z0-9] characters of s, in order
RECURSIVE Words(_, _)
Words(s, cur) ==
    IF s = <<>> THEN (IF cur = <<>> THEN <<>> ELSE <<cur>>)
    ELSE IF IsAZ09(Head(s)) THEN Words(Tail(s), Append(cur, Head(s)))
    ELSE (IF cur = <<>> THEN <<>> ELSE <<cur>>) \o Words(Tail(s), <<>>)

\* the words joined by single hyphens
RECURSIVE Join(_)
Join(ws) ==
    IF ws = <<>> THEN <<>>
    ELSE IF Len(ws) = 1 THEN ws[1]
    ELSE ws[1] \o <<"-">> \o Join(Tail(ws))

\* C10: createIdFromText(text) is the lower-cased text with every maximal run
\* of characters outside [a-z0-9] replaced by one hyphen and without leading
\* or trailing hyphen, that is, its [a-z0-9] words joined by single hyphens;
\* "Getting Started with Next.js" gives "getting-started-with-next-js" and
\* "What is Tailwind CSS?" gives "what-is-tailwind-css".
C10_DerivedIdIsHyphenatedWords ==
    idResult[1] =>
        /\ idResult[2] = Join(Words(toLowerCase(idText), <<>>))
        /\ idText = tGettingStarted => idResult[2] = idGettingStarted
        /\ idText = tWhatIsTailwind => idResult[2] = idWhatIsTailwind

\* the id of "Getting Started with Next.js" has been derived
C10_Witness ==
    /\ idResult[1]
    /\ idText = tGettingStarted
    /\ idResult[2] = idGettingStarted

\* the element of page d behind the k-th entry of the outline of a scan
Scanned(d, k) == d.els[Kth(Qualifying(d), k)]

\* the id that the text of a heading derives, as the [a-z0-9] words of the
\* lower-cased text joined by single hyphens
DerivedId(text) == Join(Words(toLowerCase(text), <<>>))

\* C11: the entry of a heading that carried an id when the scan ran has
\* exactly that id; the entry of a heading without id has the id derived
\* from its text.
C11_ExistingIdReusedVerbatim ==
    lastScan.kind = "found" =>
        /\ Len(headings) = Cardinality(Qualifying(lastScan.page))
        /\ \A k \in 1..Len(headings) :
               LET el == Scanned(lastScan.page, k)
               IN  /\ el.id # <<>> => headings[k].id = el.id
                   /\ el.id = <<>> => headings[k].id = DerivedId(el.textContent)

\* a heading whose id ("start") is not the one its text derives was scanned:
\* its entry has that id
C11_Witness ==
    /\ lastScan.kind = "found"
    /\ Len(headings) = 2
    /\ Scanned(lastScan.page, 1).id = idStart
    /\ headings[1].id = idStart
    /\ headings[1].text = tGettingStarted

\* C12: after a scan that found the content region, every h2/h3 heading of
\* the region carries a non-empty id.
C12_EveryHeadingHasId ==
    lastScan.kind = "found" =>
        \A i \in Qualifying(lastScan.after) : lastScan.after.els[i].id # <<>>

\* C13: the level of an entry is the rank of its heading (h2 or h3), its
\* item is indented exactly when the level is h3, and the three headings
\* Introduction (h2), What is Tailwind CSS? (h2), Key Features (h3) give
\* the ids introduction, what-is-tailwind-css, key-features with only the
\* third item indented.
C13_LevelFromRankIndentSubsection ==
    /\ lastScan.kind = "found" =>
           \A k \in 1..Len(headings) :
               LET el == Scanned(lastScan.page, k)
               IN  /\ headings[k].level = <<"h", "2">> <=> el.tagName = H2
                   /\ headings[k].level = <<"h", "3">> <=> el.tagName = H3
                   /\ headings[k].level \in {<<"h", "2">>, <<"h", "3">>}
                   /\ render(headings).items[k].indent <=> el.tagName = H3
    /\ (lastScan.kind = "found" /\ lastScan.page = docTailwind) =>
           /\ headings = << [text |-> tIntroduction, id |-> idIntroduction,
                             level |-> <<"h", "2">>],
                            [text |-> tWhatIsTailwind, id |-> idWhatIsTailwind,
                             level |-> <<"h", "2">>],
                            [text |-> tKeyFeatures, id |-> idKeyFeatures,
                             level |-> <<"h", "3">>] >>
           /\ [k \in 1..3 |-> render(headings).items[k].indent]
                  = <<FALSE, FALSE, TRUE>>

\* the three headings of the example have been scanned and the panel shows
\* them
C13_Witness ==
    /\ panelShown
    /\ lastScan.kind = "found"
    /\ lastScan.page = docTailwind
    /\ Len(render(headings).items) = 3
    /\ render(headings).items[3].indent

\* the scan scheduled by the latest run of the effect has executed
LatestScanDone ==
    /\ lastScan.kind # "none"
    /\ lastScan.timerId = timer

\* C14: every run of the effect schedules one scan; until it has executed
\* exactly that scan is pending, and once it has executed nothing is pending
\* (no retry, also when it found no content region or no heading) until the
\* next htmlContent change.
C14_OneScanPerChangeNoRetry ==
    /\ nextTimerId = changes + 1
    /\ mounted =>
           IF LatestScanDone THEN timers = {}
           ELSE /\ Cardinality(timers) = 1
                /\ \A t \in timers : t.id = timer /\ t.fn = "extractHeadings"
    /\ ~mounted => timers = {}

\* the scan of the latest change found no content region, and nothing is
\* pending
C14_Witness ==
    /\ mounted
    /\ LatestScanDone
    /\ lastScan.kind = "missing"
    /\ lastScan.count = 2
    /\ timers = {}

\* C15: a scan that finds the content region without any h2/h3 in it leaves
\* the outline empty, whatever it held before, and the panel is not
\* rendered.
C15_NoHeadingsEmptiesOutline ==
    (lastScan.kind = "found" /\ Qualifying(lastScan.page) = {}) =>
        /\ headings = <<>>
        /\ ~render(headings).panel
        /\ ~panelShown

\* a populated outline was emptied by a scan of a content region without
\* h2/h3 headings
C15_Witness ==
    /\ mounted
    /\ lastScan.kind = "found"
    /\ Qualifying(lastScan.page) = {}
    /\ Len(lastScan.before) > 0
    /\ headings = <<>>

\* C16: headings without id whose texts derive the same id all get that id,
\* without suffix, in their outline entries and on the elements.
C16_CollisionsNotDeduplicated ==
    lastScan.kind = "found" =>
        \A k, l \in 1..Len(headings) :
            LET a == Scanned(lastScan.page, k)
                b == Scanned(lastScan.page, l)
            IN  (/\ a.id = <<>>
                 /\ b.id = <<>>
                 /\ DerivedId(a.textContent) = DerivedId(b.textContent))
                => /\ headings[k].id = DerivedId(a.textContent)
                   /\ headings[l].id = headings[k].id
                   /\ Scanned(lastScan.after, k).id = DerivedId(a.textContent)
                   /\ Scanned(lastScan.after, l).id = Scanned(lastScan.after, k).id

\* the two "Introduction" headings have been scanned: both are "introduction"
C16_Witness ==
    /\ lastScan.kind = "found"
    /\ lastScan.page = docCms
    /\ Len(headings) = 2
    /\ headings[1].id = idIntroduction
    /\ headings[2].id = idIntroduction
    /\ lastScan.after.els[1].id = idIntroduction
    /\ lastScan.after.els[2].id = idIntroduction

\* C17: a scan leaves every element that is not an h2/h3 inside the content
\* region as it was, and the outline has one entry per h2/h3 inside the
\* content region, with that heading's text: no other element has an entry.
C17_OnlyContentH2H3 ==
    lastScan.kind # "none" =>
        /\ Len(lastScan.after.els) = Len(lastScan.page.els)
        /\ \A i \in 1..Len(lastScan.page.els) :
               i \notin Qualifying(lastScan.page) =>
                   lastScan.after.els[i] = lastScan.page.els[i]
        /\ lastScan.kind = "found" =>
               /\ Len(headings) = Cardinality(Qualifying(lastScan.page))
               /\ \A k \in 1..Len(headings) :
                      headings[k].text = Scanned(lastScan.page, k).textContent

\* a page with an h2 outside the content region and an h1 and an h4 inside
\* was scanned: no entry, no id
C17_Witness ==
    /\ lastScan.kind = "found"
    /\ lastScan.page = docPlain
    /\ lastScan.after = docPlain
    /\ headings = <<>>

\* the outline that document doc gives: one entry per h2/h3 of its content
\* region, in order, with the heading's text, its id or else the id its text
\* derives, and its rank
IsOutlineOf(h, doc) ==
    /\ Len(h) = Cardinality(Qualifying(doc))
    /\ \A k \in 1..Len(h) :
           LET el == Scanned(doc, k)
           IN  /\ h[k].text = el.textContent
               /\ h[k].level = toLowerCase(el.tagName)
               /\ h[k].id = IF el.id # <<>> THEN el.id ELSE DerivedId(el.textContent)

\* C18: while the component stays mounted, every run of the effect (mount or
\* htmlContent change) is eventually followed by the scan of the latest run;
\* when that scan found the rendered content region of the displayed
\* document, the outline is the outline of that document.
C18_ChangeLeadsToScanOfLatest ==
    /\ (mounted /\ ~LatestScanDone) ~> (~mounted \/ LatestScanDone)
    /\ [](  (/\ mounted
             /\ LatestScanDone
             /\ lastScan.kind = "found"
             /\ lastScan.domContent = htmlContent)
          => IsOutlineOf(headings, Documents[htmlContent]))

\* after two runs of the effect or more, the scan of the latest run has
\* rebuilt the outline from the rendered document now displayed
C18_Witness ==
    /\ mounted
    /\ changes >= 2
    /\ LatestScanDone
    /\ lastScan.kind = "found"
    /\ lastScan.domContent = htmlContent
    /\ headings # <<>>
    /\ lastScan.before # <<>>
    /\ lastScan.before # headings

\* C19: the outline is empty as long as no scan has run; it goes from empty
\* to populated only in a step that is a scan finding the content region
\* with at least one h2/h3 in it; and every such scan leaves it populated.
C19_PopulatedOnlyByScan ==
    /\ [](lastScan.kind = "none" => headings = <<>>)
    /\ []((lastScan.kind = "found" /\ Qualifying(lastScan.page) # {})
             => headings # <<>>)
    /\ [][(headings = <<>> /\ headings' # <<>>)
             => /\ lastScan' # lastScan
                /\ lastScan'.kind = "found"
                /\ lastScan'.page = dom
                /\ Qualifying(dom) # {}]_vars

\* an empty outline has been populated by a scan
C19_Witness ==
    /\ mounted
    /\ lastScan.kind = "found"
    /\ lastScan.before = <<>>
    /\ Qualifying(lastScan.page) # {}
    /\ headings # <<>>

\* C20: after a scan that found the content region, the id of the i-th
\* outline entry is the id that the i-th h2/h3 element of the region carries
\* after the scan, whether it was there before or has been derived.
C20_EntryIdIsElementId ==
    lastScan.kind = "found" =>
        /\ Len(headings) = Cardinality(Qualifying(lastScan.after))
        /\ \A k \in 1..Len(headings) :
               headings[k].id = Scanned(lastScan.after, k).id

\* a page with a heading that had an id and a heading that got a derived,
\* non-empty id has been scanned
C20_Witness ==
    /\ lastScan.kind = "found"
    /\ \E k, l \in 1..Len(headings) :
           /\ Scanned(lastScan.page, k).id # <<>>
           /\ Scanned(lastScan.page, l).id = <<>>
           /\ Scanned(lastScan.after, l).id # <<>>
           /\ headings[l].id = Scanned(lastScan.after, l).id

\* page b is page a with nothing changed but the id of elements that had
\* none in a: same region, same number and order of elements, same rank,
\* text and place of every element, same id wherever a had one
SameButNewIds(a, b) ==
    /\ b.contentArea = a.contentArea
    /\ Len(b.els) = Len(a.els)
    /\ \A i \in 1..Len(a.els) :
           /\ b.els[i].tagName = a.els[i].tagName
           /\ b.els[i].textContent = a.els[i].textContent
           /\ b.els[i].inContent = a.els[i].inContent
           /\ a.els[i].id # <<>> => b.els[i].id = a.els[i].id

\* C21: a scan changes nothing of the page but the id of headings that had
\* none, and after any number of scans the page is still the rendered
\* document up to the ids of headings that had none.
C21_ScanChangesOnlyMissingIds ==
    /\ lastScan.kind # "none" => SameButNewIds(lastScan.page, lastScan.after)
    /\ domContent # 0 => SameButNewIds(Documents[domContent], dom)

\* the same rendered page has been scanned twice; one heading got an id, the
\* heading that had the id "setup" in the HTML still has it
C21_Witness ==
    /\ lastScan.kind = "found"
    /\ lastScan.count >= 2
    /\ lastScan.prevKind = "found"
    /\ Documents[domContent] = docEdge
    /\ dom # docEdge
    /\ dom.els[2].id = idSetup
    /\ dom.els[3].id = idSetup

\* C22: while the component is mounted the outline changes only in a step
\* that is a scan finding the content region; an htmlContent change, the
\* scheduling or cancellation of a timer, the passage of time and a scan that
\* finds no content region leave it exactly as it was.
C22_OutlineChangedOnlyByFoundScan ==
    [][/\ (mounted /\ mounted' /\ headings' # headings) =>
              /\ lastScan'.count = lastScan.count + 1
              /\ lastScan'.kind = "found"
              /\ lastScan'.page = dom
       /\ (mounted /\ htmlContent' # htmlContent) => headings' = headings
       /\ (mounted /\ timers' # timers /\ lastScan' = lastScan) =>
              headings' = headings
       /\ (lastScan' # lastScan /\ lastScan'.kind = "missing") =>
              headings' = headings]_vars

\* a populated outline has survived a scan that found no content region and
\* the htmlContent change after it, whose scan is pending
C22_Witness ==
    /\ mounted
    /\ lastScan.kind = "missing"
    /\ headings # <<>>
    /\ headings = lastScan.before
    /\ lastScan.content # htmlContent
    /\ timers # {}

\* C23: unmounting cancels the pending scan: while the component is
\* unmounted no timer is pending, no scan executes, no heading id is
\* assigned and the outline is not updated; every scan that executed did so
\* while the component was mounted.
C23_UnmountCancelsScan ==
    /\ [](~mounted => timers = {})
    /\ [](lastScan.kind # "none" => lastScan.wasMounted)
    /\ [][~mounted => /\ dom' = dom
                      /\ mounted' \/ (lastScan' = lastScan /\ headings' = headings)]_vars

\* the component was unmounted while its first scan was pending: the
\* rendered headings never got an id and the outline is still empty
C23_Witness ==
    /\ ~mounted
    /\ changes >= 1
    /\ lastScan.kind = "none"
    /\ dom = docTailwind
    /\ headings = <<>>
    /\ timers = {}

\* C24: a scan schedules nothing, also when it updates the outline: the step
\* of a scan leaves no timer pending and hands out no timer handle; a timer
\* is scheduled only in a step that is a run of the effect (mount or
\* htmlContent change); and a pending timer always leads to a state without
\* pending timer.
C24_ScanSchedulesNothingQuiescent ==
    /\ [][lastScan'.count = lastScan.count + 1 =>
              (timers' = {} /\ nextTimerId' = nextTimerId)]_vars
    /\ [][(\E t \in timers' : \A u \in timers : u.id # t.id) =>
              (changes' = changes + 1 /\ (mounted => lastScan' = lastScan))]_vars
    /\ (timers # {}) ~> (timers = {})

\* the scan of the latest htmlContent change has replaced the outline by a
\* different one, and no timer is pending
C24_Witness ==
    /\ mounted
    /\ LatestScanDone
    /\ lastScan.kind = "found"
    /\ headings # lastScan.before
    /\ lastScan.before # <<>>
    /\ timers = {}
    /\ nextTimerId = changes + 1

\* C25: the id derived from any text has only characters of [a-z0-9-], no
\* hyphen at its start or end and no two hyphens in a row, and deriving an id
\* from it gives it back.
C25_DerivedIdAnchorSafeIdempotent ==
    idResult[1] =>
        LET id == idResult[2]
        IN  /\ \A i \in 1..Len(id) : id[i] \in AZ09 \cup {"-"}
            /\ id # <<>> => (id[1] # "-" /\ id[Len(id)] # "-")
            /\ \A i \in 1..(Len(id) - 1) : ~(id[i] = "-" /\ id[i + 1] = "-")
            /\ createIdFromText(id) = id

\* "Setup!" has given "setup": the hyphen of the final "!" has been removed
C25_Witness ==
    /\ idResult[1]
    /\ idText = tSetup
    /\ idResult[2] = idSetup

\* C26: from a pathname change on, the progress value goes down only in a
\* step that resets it to 0 (or that is the next pathname change).
C26_ProgressNeverDecreases ==
    [][progress' < progress =>
          (progress' = 0 \/ navChanges' = navChanges + 1)]_vars

\* C27: once the progress value is back at 0 it stays 0 until the next
\* pathname change: it leaves 0 only in a step that is a run of the effect
\* on [pathname].
C27_StaysZeroUntilNextChange ==
    [][(progress = 0 /\ progress' # 0) => navChanges' = navChanges + 1]_vars

\* C28: the progress value is one of 0, 30, 70 and 100, and it is 0 as long
\* as no effect has run.
C28_ProgressValues ==
    /\ progress \in {0, ProgressStart, ProgressMiddle, ProgressFull}
    /\ ProgressStart = 30 /\ ProgressMiddle = 70 /\ ProgressFull = 100
    /\ ~navMounted => progress = 0

\* after a second pathname change the progress value has gone through 70 to
\* 100, while timers are still pending
C28_Witness ==
    /\ navMounted
    /\ navChanges >= 2
    /\ progress = ProgressFull
    /\ loaderFull
    /\ navTimers # {}

====
